---------------------------- MODULE Spec2Model ----------------------------
(***************************************************************************)
(* Model of diagnostico_gestor_com_ia.py: the two schema adapters          *)
(* (padronizar_gclick, padronizar_onvio), the keyword classifier           *)
(* (categorizar_tarefa), the metrics engine (calcular_metricas) and the    *)
(* Streamlit script that filters, summarises and sends a sample to the AI  *)
(* diagnosis.                                                              *)
(*                                                                         *)
(* Text is a sequence of one-character strings.  The accented letters the  *)
(* keyword table needs are written in ASCII: "'a" is a-acute, "~a" is      *)
(* a-tilde, ",c" is c-cedilla, and "'A", "~A", ",C" their capitals.        *)
(*                                                                         *)
(* The category 'Contábil' is written "Contabil".                          *)
(*                                                                         *)
(* A cell of a DataFrame is a record [tipo, s, n]:                         *)
(*   tipo = "NaN"        a missing value (float nan)                       *)
(*   tipo = "str"        a Python string, s its characters                 *)
(*   tipo = "Timestamp"  a pandas Timestamp, n its minutes since 1970      *)
(*   tipo = "NaT"        the missing Timestamp                             *)
(*   tipo = "int"        an integer n (a timedelta's .days)                *)
(*                                                                         *)
(* Left out: the drawing of the charts and the row order of the frames     *)
(* they are drawn from, the CSV download, and the reading of the API key   *)
(* (line 178), which is taken to be configured.                            *)
(***************************************************************************)
EXTENDS Integers, Sequences, FiniteSets, TLC

VARIABLES
    \* categorizar_tarefa called on its own
    arg_nome, ret_tipo,
    \* the adapters and calcular_metricas called as a library
    df_gclick, df_onvio, pad_gclick, pad_onvio,
    \* the Streamlit script: widgets, the user's file, the last run's outcome
    disco, ferramenta_selecionada, arquivo_carregado, filtro, botao, execucao

vars == <<arg_nome, ret_tipo, df_gclick, df_onvio, pad_gclick, pad_onvio,
          disco, ferramenta_selecionada, arquivo_carregado, filtro, botao, execucao>>

-----------------------------------------------------------------------------
(* Bounds *)

\* names are built from at most MaxPartes fragments
MaxPartes == 2
\* rows of a DataFrame handed to the adapters and calcular_metricas directly
MaxLinhas == 1
\* rows of a file uploaded to the script
MaxLinhasArquivo == 2

-----------------------------------------------------------------------------
(* Cells and text *)

NaN == [tipo |-> "NaN", s |-> <<>>, n |-> 0]
NaT == [tipo |-> "NaT", s |-> <<>>, n |-> 0]
Str(chars) == [tipo |-> "str", s |-> chars, n |-> 0]
Timestamp(minutos) == [tipo |-> "Timestamp", s |-> <<>>, n |-> minutos]
IntCell(i) == [tipo |-> "int", s |-> <<>>, n |-> i]

\* str.lower() on one character
LowerChar(c) ==
    CASE c = "A" -> "a" [] c = "B" -> "b" [] c = "C" -> "c" [] c = "D" -> "d"
      [] c = "E" -> "e" [] c = "F" -> "f" [] c = "G" -> "g" [] c = "H" -> "h"
      [] c = "I" -> "i" [] c = "J" -> "j" [] c = "K" -> "k" [] c = "L" -> "l"
      [] c = "M" -> "m" [] c = "N" -> "n" [] c = "O" -> "o" [] c = "P" -> "p"
      [] c = "Q" -> "q" [] c = "R" -> "r" [] c = "S" -> "s" [] c = "T" -> "t"
      [] c = "U" -> "u" [] c = "V" -> "v" [] c = "W" -> "w" [] c = "X" -> "x"
      [] c = "Y" -> "y" [] c = "Z" -> "z"
      [] c = "'A" -> "'a" [] c = "~A" -> "~a" [] c = ",C" -> ",c"
      [] OTHER -> c

\* str.lower()
Lower(chars) == [i \in 1..Len(chars) |-> LowerChar(chars[i])]

\* the `in` operator on two strings: kw occurs in chars as a substring
Contains(kw, chars) ==
    \E i \in 1..(Len(chars) - Len(kw) + 1) : SubSeq(chars, i, i + Len(kw) - 1) = kw

\* str(x) of a cell of an object column
PyStr(cell) ==
    CASE cell.tipo = "str" -> cell.s
      [] cell.tipo = "NaN" -> <<"n", "a", "n">>
      [] cell.tipo = "NaT" -> <<"N", "a", "T">>
      [] OTHER -> <<"?">>

-----------------------------------------------------------------------------
(* categorizar_tarefa *)

PalavrasFiscal ==
    << <<"d","c","t","f">>, <<"s","p","e","d">>, <<"f","i","s","c","a","l">>,
       <<"i","m","p","o","s","t","o">>, <<"d","a","s">> >>
PalavrasContabil ==
    << <<"b","a","l","a","n","c","e","t","e">>, <<"c","o","n","t","'a","b","i","l">>,
       <<"c","o","n","c","i","l","i","a",",c","~a","o">> >>
PalavrasPessoal ==
    << <<"f","o","l","h","a">>, <<"a","d","m","i","s","s","~a","o">>,
       <<"r","e","s","c","i","s","~a","o">>, <<"e","s","o","c","i","a","l">> >>

\* any(keyword in nome for keyword in palavras)
AnyKeyword(palavras, nome) == \E k \in 1..Len(palavras) : Contains(palavras[k], nome)

Categorias == {"Fiscal", "Contabil", "Depto. Pessoal", "Outros"}

\* a plausible slip: the payroll test placed before the fiscal one
categorizar_tarefa_pessoal_primeiro(nome_tarefa) ==
    LET nome == Lower(PyStr(nome_tarefa))
    IN  IF AnyKeyword(PalavrasPessoal, nome) THEN "Depto. Pessoal"
        ELSE IF AnyKeyword(PalavrasFiscal, nome) THEN "Fiscal"
        ELSE IF AnyKeyword(PalavrasContabil, nome) THEN "Contabil"
        ELSE "Outros"

categorizar_tarefa(nome_tarefa) ==
    LET nome == Lower(PyStr(nome_tarefa))
    IN  IF AnyKeyword(PalavrasFiscal, nome) THEN "Fiscal"
        ELSE IF AnyKeyword(PalavrasContabil, nome) THEN "Contabil"
        ELSE IF AnyKeyword(PalavrasPessoal, nome) THEN "Depto. Pessoal"
        ELSE "Outros"

-----------------------------------------------------------------------------
(* pd.to_datetime(..., errors='coerce') and .dt.to_period('M').astype(str) *)

Digit(c) ==
    CASE c = "0" -> 0 [] c = "1" -> 1 [] c = "2" -> 2 [] c = "3" -> 3 [] c = "4" -> 4
      [] c = "5" -> 5 [] c = "6" -> 6 [] c = "7" -> 7 [] c = "8" -> 8 [] c = "9" -> 9
      [] OTHER -> -1

DigitChar(i) ==
    CASE i = 0 -> "0" [] i = 1 -> "1" [] i = 2 -> "2" [] i = 3 -> "3" [] i = 4 -> "4"
      [] i = 5 -> "5" [] i = 6 -> "6" [] i = 7 -> "7" [] i = 8 -> "8" [] OTHER -> "9"

IsLeap(y) == (y % 4 = 0 /\ y % 100 # 0) \/ y % 400 = 0

DaysInMonth(y, m) ==
    IF m = 2 THEN (IF IsLeap(y) THEN 29 ELSE 28)
    ELSE IF m \in {4, 6, 9, 11} THEN 30 ELSE 31

\* days since 1970-01-01 of a proleptic Gregorian date
DaysFromCivil(y, m, d) ==
    LET yy  == IF m <= 2 THEN y - 1 ELSE y
        era == yy \div 400
        yoe == yy - era * 400
        mp  == IF m > 2 THEN m - 3 ELSE m + 9
        doy == (153 * mp + 2) \div 5 + d - 1
        doe == yoe * 365 + yoe \div 4 - yoe \div 100 + doy
    IN  era * 146097 + doe - 719468

\* the year and month of a day count
CivilFromDays(z) ==
    LET zz  == z + 719468
        era == zz \div 146097
        doe == zz - era * 146097
        yoe == (doe - doe \div 1460 + doe \div 36524 - doe \div 146096) \div 365
        doy == doe - (365 * yoe + yoe \div 4 - yoe \div 100)
        mp  == (5 * doy + 2) \div 153
        m   == IF mp < 10 THEN mp + 3 ELSE mp - 9
        y   == yoe + era * 400 + (IF m <= 2 THEN 1 ELSE 0)
    IN  [y |-> y, m |-> m]

MinutosPorDia == 1440

\* the number a run of digit characters denotes, -1 when one is no digit
Num(chars) ==
    IF \E i \in 1..Len(chars) : Digit(chars[i]) < 0 THEN -1
    ELSE IF Len(chars) = 4
         THEN Digit(chars[1]) * 1000 + Digit(chars[2]) * 100 + Digit(chars[3]) * 10 + Digit(chars[4])
         ELSE Digit(chars[1]) * 10 + Digit(chars[2])

\* one string parsed as "YYYY-MM-DD" or "YYYY-MM-DD HH:MM"; anything else is NaT
ParseDateTime(chars) ==
    LET n == Len(chars) IN
    IF ~(n \in {10, 16} /\ chars[5] = "-" /\ chars[8] = "-") THEN NaT
    ELSE IF n = 16 /\ ~(chars[11] = " " /\ chars[14] = ":") THEN NaT
    ELSE
      LET y  == Num(SubSeq(chars, 1, 4))
          m  == Num(SubSeq(chars, 6, 7))
          d  == Num(SubSeq(chars, 9, 10))
          hh == IF n = 16 THEN Num(SubSeq(chars, 12, 13)) ELSE 0
          mi == IF n = 16 THEN Num(SubSeq(chars, 15, 16)) ELSE 0
      IN  IF y < 0 \/ m < 1 \/ m > 12 \/ d < 1 \/ hh < 0 \/ hh > 23 \/ mi < 0 \/ mi > 59
             THEN NaT
          ELSE IF d > DaysInMonth(y, m) THEN NaT
          ELSE Timestamp(DaysFromCivil(y, m, d) * MinutosPorDia + hh * 60 + mi)

\* pd.to_datetime(x, errors='coerce') on one cell
to_datetime(cell) ==
    CASE cell.tipo = "Timestamp" -> cell
      [] cell.tipo = "str" -> ParseDateTime(cell.s)
      [] OTHER -> NaT

\* .dt.to_period('M').astype(str) on one cell: "YYYY-MM", and "NaT" for NaT
PeriodoMesStr(cell) ==
    IF cell.tipo # "Timestamp" THEN Str(<<"N", "a", "T">>)
    ELSE LET c == CivilFromDays(cell.n \div MinutosPorDia)
         IN  Str(<< DigitChar(c.y \div 1000), DigitChar((c.y \div 100) % 10),
                    DigitChar((c.y \div 10) % 10), DigitChar(c.y % 10), "-",
                    DigitChar(c.m \div 10), DigitChar(c.m % 10) >>)

-----------------------------------------------------------------------------
(* DataFrames: [cols: the column names in order, rows: one function from  *)
(* column name to cell per row]                                            *)

Range(f) == {f[i] : i \in DOMAIN f}

DataFrameVazio == [cols |-> <<>>, rows |-> <<>>]

HasCol(df, c) == c \in Range(df.cols)

\* df.rename(columns=mapa): a new DataFrame; names the frame lacks are ignored
Rename(df, mapa) ==
    LET novo(c) == IF c \in DOMAIN mapa THEN mapa[c] ELSE c
        velho(c) == CHOOSE o \in Range(df.cols) : novo(o) = c
        cols == [i \in 1..Len(df.cols) |-> novo(df.cols[i])]
    IN  [cols |-> cols,
         rows |-> [i \in 1..Len(df.rows) |-> [c \in Range(cols) |-> df.rows[i][velho(c)]]]]

\* df[c] = valores (one cell per row): the column is replaced, or appended
SetCol(df, c, valores) ==
    [cols |-> IF HasCol(df, c) THEN df.cols ELSE Append(df.cols, c),
     rows |-> [i \in 1..Len(df.rows) |->
                 [k \in Range(df.cols) \cup {c} |-> IF k = c THEN valores[i] ELSE df.rows[i][k]]]]

\* df[c] = v for a scalar v
SetColScalar(df, c, v) == SetCol(df, c, [i \in 1..Len(df.rows) |-> v])

-----------------------------------------------------------------------------
(* padronizar_gclick, padronizar_onvio *)

MapaGClick ==
    [c \in {"Task ID", "Task Name", "Client Name", "Assignee", "Due Date", "Completion Date"} |->
       CASE c = "Task ID" -> "id_tarefa"
         [] c = "Task Name" -> "nome_tarefa"
         [] c = "Client Name" -> "cliente"
         [] c = "Assignee" -> "responsavel"
         [] c = "Due Date" -> "data_prevista_conclusao"
         [] c = "Completion Date" -> "data_real_conclusao"]

MapaOnvio ==
    [c \in {"ProcessoID", "Descricao", "NomeCliente", "Executor", "PrazoFatal", "DataFinalizacao"} |->
       CASE c = "ProcessoID" -> "id_tarefa"
         [] c = "Descricao" -> "nome_tarefa"
         [] c = "NomeCliente" -> "cliente"
         [] c = "Executor" -> "responsavel"
         [] c = "PrazoFatal" -> "data_prevista_conclusao"
         [] c = "DataFinalizacao" -> "data_real_conclusao"]

\* Both adapters give [arg: the caller's frame after the call, ret: the frame returned].

\* a plausible slip: rename(..., inplace=True), which renames the caller's frame
padronizar_gclick_inplace(df) ==
    [arg |-> Rename(df, MapaGClick),
     ret |-> SetColScalar(Rename(df, MapaGClick), "origem_ferramenta", Str(<<"G","-","C","l","i","c","k">>))]

padronizar_gclick(df) ==
    [arg |-> df,
     ret |-> SetColScalar(Rename(df, MapaGClick), "origem_ferramenta", Str(<<"G","-","C","l","i","c","k">>))]

\* a plausible slip: the two date columns of the Onvio mapping exchanged
MapaOnvioTrocado ==
    [c \in DOMAIN MapaOnvio |->
       CASE c = "PrazoFatal" -> "data_real_conclusao"
         [] c = "DataFinalizacao" -> "data_prevista_conclusao"
         [] OTHER -> MapaOnvio[c]]

padronizar_onvio_trocado(df) ==
    [arg |-> df,
     ret |-> SetColScalar(Rename(df, MapaOnvioTrocado), "origem_ferramenta", Str(<<"O","n","v","i","o">>))]

padronizar_onvio(df) ==
    [arg |-> df,
     ret |-> SetColScalar(Rename(df, MapaOnvio), "origem_ferramenta", Str(<<"O","n","v","i","o">>))]

-----------------------------------------------------------------------------
(* calcular_metricas *)

NoPrazo == Str(<<"N","o"," ","P","r","a","z","o">>)
EmAtraso == Str(<<"E","m"," ","A","t","r","a","s","o">>)
Pendente == Str(<<"P","e","n","d","e","n","t","e">>)

\* a > b on two datetime cells: False when either is NaT
DataMaior(a, b) == a.tipo = "Timestamp" /\ b.tipo = "Timestamp" /\ a.n > b.n

\* a plausible slip: >= where the code has >
StatusPrazo_maior_ou_igual(row) ==
    LET real == row["data_real_conclusao"]
        prevista == row["data_prevista_conclusao"]
    IN  IF real.tipo = "NaT" THEN Pendente
        ELSE IF real.tipo = "Timestamp" /\ prevista.tipo = "Timestamp" /\ real.n >= prevista.n THEN EmAtraso
        ELSE NoPrazo

\* lines 61-63 on one row
StatusPrazo(row) ==
    IF row["data_real_conclusao"].tipo = "NaT" THEN Pendente
    ELSE IF DataMaior(row["data_real_conclusao"], row["data_prevista_conclusao"]) THEN EmAtraso
    ELSE NoPrazo

\* a plausible slip: line 66 left out, negative differences kept
DiasDeAtraso_sem_linha_66(row) ==
    LET real == row["data_real_conclusao"]
        prevista == row["data_prevista_conclusao"]
    IN  IF real.tipo = "Timestamp" /\ prevista.tipo = "Timestamp"
        THEN IntCell((real.n - prevista.n) \div MinutosPorDia)
        ELSE NaN

\* lines 65-66 on one row: (real - prevista).dt.days, negatives set to 0, NaN kept
DiasDeAtraso(row) ==
    LET real == row["data_real_conclusao"]
        prevista == row["data_prevista_conclusao"]
    IN  IF real.tipo = "Timestamp" /\ prevista.tipo = "Timestamp"
        THEN LET dias == (real.n - prevista.n) \div MinutosPorDia
             IN  IntCell(IF dias < 0 THEN 0 ELSE dias)
        ELSE NaN

KeyError(c) == "KeyError: " \o c

\* The frame is changed in place: [erro: "" or the exception raised, df: the
\* caller's frame after the call, which is also the frame returned].

\* line 70
cm_mes_conclusao(df) ==
    [erro |-> "",
     df |-> SetCol(df, "mes_conclusao",
                   [i \in 1..Len(df.rows) |-> PeriodoMesStr(df.rows[i]["data_real_conclusao"])])]

\* line 69; a category is a string of one piece
cm_tipo_tarefa(df) ==
    IF ~HasCol(df, "nome_tarefa") THEN [erro |-> KeyError("nome_tarefa"), df |-> df]
    ELSE cm_mes_conclusao(
           SetCol(df, "tipo_tarefa",
                  [i \in 1..Len(df.rows) |-> Str(<<categorizar_tarefa(df.rows[i]["nome_tarefa"])>>)]))

\* lines 65-66
cm_dias_de_atraso(df) ==
    cm_tipo_tarefa(SetCol(df, "dias_de_atraso", [i \in 1..Len(df.rows) |-> DiasDeAtraso(df.rows[i])]))

\* lines 61-63
cm_status_prazo(df) ==
    cm_dias_de_atraso(SetCol(df, "status_prazo", [i \in 1..Len(df.rows) |-> StatusPrazo(df.rows[i])]))

\* line 59
cm_data_real(df) ==
    IF ~HasCol(df, "data_real_conclusao") THEN [erro |-> KeyError("data_real_conclusao"), df |-> df]
    ELSE cm_status_prazo(
           SetCol(df, "data_real_conclusao",
                  [i \in 1..Len(df.rows) |-> to_datetime(df.rows[i]["data_real_conclusao"])]))

\* line 58 and on
calcular_metricas(df) ==
    IF ~HasCol(df, "data_prevista_conclusao") THEN [erro |-> KeyError("data_prevista_conclusao"), df |-> df]
    ELSE cm_data_real(
           SetCol(df, "data_prevista_conclusao",
                  [i \in 1..Len(df.rows) |-> to_datetime(df.rows[i]["data_prevista_conclusao"])]))

-----------------------------------------------------------------------------
(* Inputs *)

\* fragments task names are built from: keywords whole, split ("DA" + "S"), in
\* capitals and with accented capitals
Partes ==
    { <<"D","A">>,
      <<"S">>,
      <<"F","o","l","h","a">>,
      <<"s","p","e","d">>,
      <<"B","a","l","a","n","c","e","t","e">>,
      <<" ">>,
      <<"x">>,
      <<"C","O","N","C","I","L","I","A">>,
      <<",C","~A","O">> }

RECURSIVE Concats(_)
Concats(k) ==
    IF k = 0 THEN {<<>>}
    ELSE LET menos == Concats(k - 1) IN menos \cup {a \o p : a \in menos, p \in Partes}

\* the values categorizar_tarefa is handed: strings, and the nan of an empty cell
NomesArg == {Str(t) : t \in Concats(MaxPartes)} \cup {NaN}

NomesTarefa == {Str(<<"E","n","v","i","o"," ","D","C","T","F">>), Str(<<"F","o","l","h","a">>)}

\* The texts of one column share one format, as in a tool's export (pandas derives a
\* column's format from its first value): due dates are dates, completed dates have
\* the time of day.

\* raw cells of a due-date column: empty, not a date, a date
DatasPrevistas ==
    {NaN} \cup {Str(t) : t \in
    { <<"a","b","c">>,
      <<"2","0","2","4","-","0","1","-","1","0">> }}

\* raw cells of a completion-date column: empty, not a date, the end of the year
\* before, half a day before the due date, on it, later that day, one day and five
\* days after, a leap day, a day that does not exist
DatasReais ==
    {NaN} \cup {Str(t) : t \in
    { <<"a","b","c">>,
      <<"2","0","2","3","-","1","2","-","3","1"," ","2","3",":","5","9">>,
      <<"2","0","2","4","-","0","1","-","0","9"," ","1","2",":","0","0">>,
      <<"2","0","2","4","-","0","1","-","1","0"," ","0","0",":","0","0">>,
      <<"2","0","2","4","-","0","1","-","1","0"," ","1","7",":","0","0">>,
      <<"2","0","2","4","-","0","1","-","1","1"," ","0","0",":","0","0">>,
      <<"2","0","2","4","-","0","1","-","1","5"," ","0","8",":","0","0">>,
      <<"2","0","2","4","-","0","2","-","2","9"," ","0","0",":","0","0">>,
      <<"2","0","2","4","-","0","2","-","3","0"," ","0","0",":","0","0">> }}

Acme == Str(<<"A","c","m","e">>)
Beta == Str(<<"B","e","t","a">>)
Ana == Str(<<"A","n","a">>)
Bia == Str(<<"B","i","a">>)

\* one task, tool-independent
Tarefa(nome, cliente, responsavel, prevista, real) ==
    [nome |-> nome, cliente |-> cliente, responsavel |-> responsavel,
     prevista |-> prevista, real |-> real]

TarefasBiblioteca ==
    {Tarefa(nm, Acme, Ana, p, r) : nm \in NomesTarefa, p \in DatasPrevistas, r \in DatasReais}

RECURSIVE SeqsAte(_, _)
\* the sequences of at most k elements of S
SeqsAte(S, k) ==
    IF k = 0 THEN {<<>>}
    ELSE LET menos == SeqsAte(S, k - 1) IN menos \cup {Append(q, x) : q \in menos, x \in S}

IdTarefa(i) == Str(<<"T", DigitChar(i)>>)

ColunasGClick == <<"Task ID", "Task Name", "Client Name", "Assignee", "Due Date", "Completion Date">>
ColunasOnvio == <<"ProcessoID", "Descricao", "NomeCliente", "Executor", "PrazoFatal", "DataFinalizacao">>

\* the raw frame a tool's export of these tasks reads as; colunas are the six
\* column names of the tool in the order id, name, client, assignee, due, completed
Bruto(tarefas, colunas) ==
    [cols |-> colunas,
     rows |-> [i \in 1..Len(tarefas) |->
                 [c \in Range(colunas) |->
                    CASE c = colunas[1] -> IdTarefa(i)
                      [] c = colunas[2] -> tarefas[i].nome
                      [] c = colunas[3] -> tarefas[i].cliente
                      [] c = colunas[4] -> tarefas[i].responsavel
                      [] c = colunas[5] -> tarefas[i].prevista
                      [] c = colunas[6] -> tarefas[i].real]]]

\* a frame without one of its columns
SemColuna(df, c) ==
    [cols |-> SelectSeq(df.cols, LAMBDA k : k # c),
     rows |-> [i \in 1..Len(df.rows) |-> [k \in Range(df.cols) \ {c} |-> df.rows[i][k]]]]

-----------------------------------------------------------------------------
(* The parts of the state each specification leaves alone *)

NaoChamado == "(nao chamado)"

InitCategorizar == arg_nome = NaN /\ ret_tipo = NaoChamado

SemPadronizar == [fase |-> "bruto", df |-> DataFrameVazio, padronizado |-> DataFrameVazio, erro |-> ""]

InitBiblioteca ==
    /\ df_gclick = DataFrameVazio /\ df_onvio = DataFrameVazio
    /\ pad_gclick = SemPadronizar /\ pad_onvio = SemPadronizar

varsCategorizar == <<arg_nome, ret_tipo>>
varsBiblioteca == <<df_gclick, df_onvio, pad_gclick, pad_onvio>>
varsScript == <<disco, ferramenta_selecionada, arquivo_carregado, filtro, botao, execucao>>

-----------------------------------------------------------------------------
(* categorizar_tarefa as a library function *)

Categorizar ==
    /\ ret_tipo = NaoChamado
    /\ ret_tipo' = categorizar_tarefa(arg_nome)
    /\ UNCHANGED <<arg_nome, varsBiblioteca, varsScript>>

-----------------------------------------------------------------------------
(* The adapters and calcular_metricas as library functions, on the G-Click *)
(* and the Onvio export of the same tasks                                  *)

PadronizarGClick ==
    /\ pad_gclick.fase = "bruto"
    /\ LET r == padronizar_gclick(df_gclick)
       IN  /\ df_gclick' = r.arg
           /\ pad_gclick' = [fase |-> "padronizado", df |-> r.ret, padronizado |-> r.ret, erro |-> ""]
    /\ UNCHANGED <<df_onvio, pad_onvio, varsCategorizar, varsScript>>

PadronizarOnvio ==
    /\ pad_onvio.fase = "bruto"
    /\ LET r == padronizar_onvio(df_onvio)
       IN  /\ df_onvio' = r.arg
           /\ pad_onvio' = [fase |-> "padronizado", df |-> r.ret, padronizado |-> r.ret, erro |-> ""]
    /\ UNCHANGED <<df_gclick, pad_gclick, varsCategorizar, varsScript>>

\* df_analise = calcular_metricas(df_padronizado): one frame under two names
CalcularMetricasGClick ==
    /\ pad_gclick.fase = "padronizado"
    /\ LET r == calcular_metricas(pad_gclick.df)
       IN  pad_gclick' = [pad_gclick EXCEPT !.fase = "analisado", !.df = r.df, !.erro = r.erro]
    /\ UNCHANGED <<df_gclick, df_onvio, pad_onvio, varsCategorizar, varsScript>>

CalcularMetricasOnvio ==
    /\ pad_onvio.fase = "padronizado"
    /\ LET r == calcular_metricas(pad_onvio.df)
       IN  pad_onvio' = [pad_onvio EXCEPT !.fase = "analisado", !.df = r.df, !.erro = r.erro]
    /\ UNCHANGED <<df_gclick, df_onvio, pad_gclick, varsCategorizar, varsScript>>

-----------------------------------------------------------------------------
(* The script: filtering and the dashboard's figures (lines 112-160).      *)
(* A rate is the exact fraction [num, den] of its percentage; the grouped  *)
(* frames are sets of rows, their sort order for the charts left out.      *)

RECURSIVE SomaDias(_)
SomaDias(rows) ==
    IF rows = <<>> THEN 0 ELSE Head(rows)["dias_de_atraso"].n + SomaDias(Tail(rows))

\* line 112
FiltrarLinhas(df, clientes, responsaveis) ==
    [cols |-> df.cols,
     rows |-> SelectSeq(df.rows, LAMBDA r : r["cliente"] \in clientes /\ r["responsavel"] \in responsaveis)]

\* line 119, a division by zero being an exception
taxa_no_prazo_sem_guarda(df) ==
    IF Len(df.rows) > 0
    THEN [erro |-> "", num |-> 100 * Len(SelectSeq(df.rows, LAMBDA r : r["status_prazo"] = NoPrazo)),
          den |-> Len(df.rows)]
    ELSE [erro |-> "ZeroDivisionError", num |-> 0, den |-> 0]

taxa_no_prazo(df) ==
    IF Len(df.rows) > 0
    THEN [erro |-> "", num |-> 100 * Len(SelectSeq(df.rows, LAMBDA r : r["status_prazo"] = NoPrazo)),
          den |-> Len(df.rows)]
    ELSE [erro |-> "", num |-> 0, den |-> 1]

\* line 121: the mean of the positive dias_de_atraso; the mean of nothing is nan
media_atraso(df) ==
    LET atrasadas == SelectSeq(df.rows, LAMBDA r : r["dias_de_atraso"].tipo = "int" /\ r["dias_de_atraso"].n > 0)
    IN  IF atrasadas = <<>> THEN [nan |-> TRUE, soma |-> 0, n |-> 0]
        ELSE [nan |-> FALSE, soma |-> SomaDias(atrasadas), n |-> Len(atrasadas)]

\* line 122: what the third metric shows
TextoMedia(media) == IF media.nan THEN "N/A" ELSE "dias"

\* x.groupby(chave): the keys present
Chaves(rows, chave) == {rows[i][chave] : i \in 1..Len(rows)}

\* line 133
TarefasPorResponsavel(df) ==
    {[responsavel |-> k, contagem |-> Len(SelectSeq(df.rows, LAMBDA r : r["responsavel"] = k))] :
       k \in Chaves(df.rows, "responsavel")}

\* lines 138 and 153: the share of 'No Prazo' per key among the rows that are not 'Pendente'
TaxaPorChave(df, chave) ==
    LET concluidas == SelectSeq(df.rows, LAMBDA r : r["status_prazo"] # Pendente)
    IN  {[chave |-> k,
          num |-> 100 * Len(SelectSeq(concluidas, LAMBDA r : r[chave] = k /\ r["status_prazo"] = NoPrazo)),
          den |-> Len(SelectSeq(concluidas, LAMBDA r : r[chave] = k))] : k \in Chaves(concluidas, chave)}

\* line 144
AtrasosPorTipo(df) ==
    LET atrasadas == SelectSeq(df.rows, LAMBDA r : r["status_prazo"] = EmAtraso)
    IN  {[tipo_tarefa |-> k, contagem |-> Len(SelectSeq(atrasadas, LAMBDA r : r["tipo_tarefa"] = k))] :
           k \in Chaves(atrasadas, "tipo_tarefa")}

Amostra == 50

ColunasResumo == <<"cliente", "responsavel", "status_prazo", "tipo_tarefa", "dias_de_atraso">>

\* line 185: the first 50 rows of five columns
Resumo(df) ==
    [i \in 1..(IF Len(df.rows) < Amostra THEN Len(df.rows) ELSE Amostra) |->
       [c \in Range(ColunasResumo) |-> df.rows[i][c]]]

-----------------------------------------------------------------------------
(* One run of the script, top to bottom *)

Ferramentas == {"G-Click", "Onvio Processos", "Acessorias"}

SemArquivo == [presente |-> FALSE, legivel |-> FALSE, df |-> DataFrameVazio]

FiltroPadrao == [definido |-> FALSE, clientes |-> {}, responsaveis |-> {}]

PainelVazio ==
    [exibido |-> FALSE, total |-> 0, taxa |-> [num |-> 0, den |-> 1],
     media |-> [nan |-> TRUE, soma |-> 0, n |-> 0], texto_media |-> "",
     por_responsavel |-> {}, taxa_responsavel |-> {}, atraso_tipo |-> {}, evolucao |-> {},
     tabela |-> DataFrameVazio]

\* what a run leaves on the page and in its variables
ExecucaoBase ==
    [aguardando |-> FALSE, erro_ferramenta |-> FALSE, parou |-> FALSE, sucesso |-> FALSE,
     erro_processar |-> "", df_padronizado |-> DataFrameVazio, padronizado |-> FALSE,
     filtros_exibidos |-> FALSE, opcoes_cliente |-> {}, opcoes_responsavel |-> {},
     df_filtrado_definido |-> FALSE, df_filtrado |-> DataFrameVazio, painel |-> PainelVazio,
     botao_exibido |-> FALSE, ia |-> "nao pedido", resumo |-> <<>>, excecao |-> ""]

\* lines 112-168: df_filtrado is bound to dff and the dashboard drawn from it
Painel(e, dff) ==
    LET taxa == taxa_no_prazo(dff)
        media == media_atraso(dff)
    IN  IF taxa.erro # "" THEN [e EXCEPT !.df_filtrado = dff, !.erro_processar = taxa.erro]
        ELSE [e EXCEPT !.df_filtrado = dff, !.painel =
                [exibido |-> TRUE, total |-> Len(dff.rows),
                 taxa |-> [num |-> taxa.num, den |-> taxa.den],
                 media |-> media, texto_media |-> TextoMedia(media),
                 por_responsavel |-> TarefasPorResponsavel(dff),
                 taxa_responsavel |-> TaxaPorChave(dff, "responsavel"),
                 atraso_tipo |-> AtrasosPorTipo(dff),
                 evolucao |-> TaxaPorChave(dff, "mes_conclusao"),
                 tabela |-> dff]]

\* lines 105-168, after calcular_metricas returned m
AposMetricas(e0, m, filt) ==
    LET e1 == [e0 EXCEPT !.padronizado = TRUE, !.df_padronizado = m.df]
    IN  IF m.erro # "" THEN [e1 EXCEPT !.erro_processar = m.erro]
        ELSE IF ~HasCol(m.df, "cliente")
             THEN [e1 EXCEPT !.sucesso = TRUE, !.erro_processar = KeyError("cliente")]
        ELSE IF ~HasCol(m.df, "responsavel")
             THEN [e1 EXCEPT !.sucesso = TRUE, !.erro_processar = KeyError("responsavel")]
        ELSE
          LET opc == Chaves(m.df.rows, "cliente")
              opr == Chaves(m.df.rows, "responsavel")
          IN  Painel([e1 EXCEPT !.sucesso = TRUE, !.filtros_exibidos = TRUE,
                                !.opcoes_cliente = opc, !.opcoes_responsavel = opr,
                                !.df_filtrado_definido = TRUE],
                     FiltrarLinhas(m.df, IF filt.definido THEN filt.clientes ELSE opc,
                                         IF filt.definido THEN filt.responsaveis ELSE opr))

\* lines 104-168, after the adapter returned df_padronizado
Analisar(e0, df_padronizado, filt) == AposMetricas(e0, calcular_metricas(df_padronizado), filt)

\* lines 92-173
Processar(ferramenta, arquivo, filt) ==
    IF ~arquivo.presente THEN [ExecucaoBase EXCEPT !.aguardando = TRUE]
    ELSE IF ~arquivo.legivel THEN [ExecucaoBase EXCEPT !.erro_processar = "ParserError"]
    ELSE IF ferramenta = "G-Click" THEN Analisar(ExecucaoBase, padronizar_gclick(arquivo.df).ret, filt)
    ELSE IF ferramenta = "Onvio Processos" THEN Analisar(ExecucaoBase, padronizar_onvio(arquivo.df).ret, filt)
    ELSE [ExecucaoBase EXCEPT !.erro_ferramenta = TRUE, !.parou = TRUE]

\* lines 183-199; ia_falha: the call to the language model raises
Diagnostico(e, clicou, ia_falha) ==
    IF e.parou THEN e
    ELSE IF ~clicou THEN [e EXCEPT !.botao_exibido = TRUE]
    ELSE IF ~e.df_filtrado_definido
         THEN [e EXCEPT !.botao_exibido = TRUE, !.excecao = "NameError: df_filtrado"]
    ELSE [e EXCEPT !.botao_exibido = TRUE, !.resumo = Resumo(e.df_filtrado),
                   !.ia = IF ia_falha THEN "erro exibido" ELSE "sucesso"]

Executar(ferramenta, arquivo, filt, clicou, ia_falha) ==
    Diagnostico(Processar(ferramenta, arquivo, filt), clicou, ia_falha)

-----------------------------------------------------------------------------
(* The user's files *)

\* a pending task, one completed at the start of its due day, one completed later
\* that day, one completed days later, one completed with no due date
TarefasArquivo ==
    { Tarefa(Str(<<"E","n","v","i","o"," ","D","C","T","F">>), Acme, Ana, Str(<<"2","0","2","4","-","0","1","-","1","0">>), NaN),
      Tarefa(Str(<<"E","n","v","i","o"," ","D","C","T","F">>), Acme, Ana, Str(<<"2","0","2","4","-","0","1","-","1","0">>),
             Str(<<"2","0","2","4","-","0","1","-","1","0"," ","0","0",":","0","0">>)),
      Tarefa(Str(<<"F","o","l","h","a">>), Beta, Bia, Str(<<"2","0","2","4","-","0","1","-","1","0">>),
             Str(<<"2","0","2","4","-","0","1","-","1","0"," ","1","7",":","0","0">>)),
      Tarefa(Str(<<"E","n","v","i","o"," ","D","C","T","F">>), Acme, Bia, Str(<<"2","0","2","4","-","0","1","-","1","0">>),
             Str(<<"2","0","2","4","-","0","1","-","1","5"," ","0","8",":","0","0">>)),
      Tarefa(Str(<<"F","o","l","h","a">>), Beta, Ana, NaN,
             Str(<<"2","0","2","4","-","0","1","-","0","9"," ","1","2",":","0","0">>)) }

ExportacoesCompletas ==
    {Bruto(ts, cs) : ts \in SeqsAte(TarefasArquivo, MaxLinhasArquivo), cs \in {ColunasGClick, ColunasOnvio}}

\* an export, whole or lacking one of its columns, or a file that cannot be read
ArquivosDisco ==
    {[presente |-> TRUE, legivel |-> FALSE, df |-> DataFrameVazio]}
    \cup {[presente |-> TRUE, legivel |-> TRUE, df |-> d] : d \in ExportacoesCompletas}
    \cup {[presente |-> TRUE, legivel |-> TRUE, df |-> SemColuna(d, c)] :
            d \in ExportacoesCompletas, c \in Range(ColunasGClick) \cup Range(ColunasOnvio)}

InitScript ==
    /\ ferramenta_selecionada = "G-Click"
    /\ arquivo_carregado = SemArquivo
    /\ filtro = FiltroPadrao
    /\ botao = FALSE
    /\ execucao = Executar("G-Click", SemArquivo, FiltroPadrao, FALSE, FALSE)

-----------------------------------------------------------------------------
(* The user's actions; each reruns the script *)

Carregar ==
    /\ ~arquivo_carregado.presente
    /\ arquivo_carregado' = disco
    /\ filtro' = FiltroPadrao
    /\ botao' = FALSE
    /\ execucao' = Executar(ferramenta_selecionada, disco, FiltroPadrao, FALSE, FALSE)
    /\ UNCHANGED <<disco, ferramenta_selecionada, varsCategorizar, varsBiblioteca>>

Remover ==
    /\ arquivo_carregado.presente
    /\ arquivo_carregado' = SemArquivo
    /\ filtro' = FiltroPadrao
    /\ botao' = FALSE
    /\ execucao' = Executar(ferramenta_selecionada, SemArquivo, FiltroPadrao, FALSE, FALSE)
    /\ UNCHANGED <<disco, ferramenta_selecionada, varsCategorizar, varsBiblioteca>>

Selecionar ==
    \E f \in Ferramentas \ {ferramenta_selecionada} :
        /\ ferramenta_selecionada' = f
        /\ filtro' = FiltroPadrao
        /\ botao' = FALSE
        /\ execucao' = Executar(f, arquivo_carregado, FiltroPadrao, FALSE, FALSE)
        /\ UNCHANGED <<disco, arquivo_carregado, varsCategorizar, varsBiblioteca>>

Filtrar ==
    /\ execucao.filtros_exibidos
    /\ \E cs \in SUBSET execucao.opcoes_cliente, rs \in SUBSET execucao.opcoes_responsavel :
        /\ filtro' = [definido |-> TRUE, clientes |-> cs, responsaveis |-> rs]
        /\ botao' = FALSE
        /\ execucao' = Executar(ferramenta_selecionada, arquivo_carregado, filtro', FALSE, FALSE)
    /\ UNCHANGED <<disco, ferramenta_selecionada, arquivo_carregado, varsCategorizar, varsBiblioteca>>

Pressionar ==
    /\ execucao.botao_exibido
    /\ \E ia_falha \in BOOLEAN :
        /\ botao' = TRUE
        /\ execucao' = Executar(ferramenta_selecionada, arquivo_carregado, filtro, TRUE, ia_falha)
    /\ UNCHANGED <<disco, ferramenta_selecionada, arquivo_carregado, filtro, varsCategorizar, varsBiblioteca>>

-----------------------------------------------------------------------------
(* Specifications *)

\* the script, driven by the user
Init ==
    /\ disco \in ArquivosDisco
    /\ InitScript /\ InitCategorizar /\ InitBiblioteca

Next == Carregar \/ Remover \/ Selecionar \/ Filtrar \/ Pressionar

Spec == Init /\ [][Next]_vars

\* categorizar_tarefa on every name
InitC ==
    /\ arg_nome \in NomesArg /\ ret_tipo = NaoChamado
    /\ disco = SemArquivo /\ InitScript /\ InitBiblioteca

NextC == Categorizar

SpecCategorizar == InitC /\ [][NextC]_vars

\* the adapters and calcular_metricas on the two exports of the same tasks
InitB ==
    /\ \E ts \in SeqsAte(TarefasBiblioteca, MaxLinhas) :
          /\ df_gclick = Bruto(ts, ColunasGClick)
          /\ df_onvio = Bruto(ts, ColunasOnvio)
    /\ pad_gclick = SemPadronizar /\ pad_onvio = SemPadronizar
    /\ disco = SemArquivo /\ InitScript /\ InitCategorizar

NextB == PadronizarGClick \/ PadronizarOnvio \/ CalcularMetricasGClick \/ CalcularMetricasOnvio

SpecBiblioteca == InitB /\ [][NextB]_vars

-----------------------------------------------------------------------------
(* Properties of calcular_metricas and the adapters (SpecBiblioteca) *)

\* the frames calcular_metricas has enriched
Analisados == {p \in {pad_gclick, pad_onvio} : p.fase = "analisado"}

Indices(p) == 1..Len(p.df.rows)

\* a task's dates as calcular_metricas reads them from the adapter's frame
Prevista(p, i) == to_datetime(p.padronizado.rows[i]["data_prevista_conclusao"])
Real(p, i) == to_datetime(p.padronizado.rows[i]["data_real_conclusao"])

Presente(data) == data.tipo = "Timestamp"

\* completed strictly after due; never so when there is no due date
DepoisDoPrazo(p, i) == Presente(Real(p, i)) /\ Presente(Prevista(p, i)) /\ Real(p, i).n > Prevista(p, i).n

\* C1: after calcular_metricas every task has exactly one deadline status: Pendente
\* iff its completed date is absent (missing or unparseable), Em Atraso iff the
\* completed date is present and strictly after the due date, No Prazo iff it is
\* present and not after the due date, whatever the due date is.
C1_StatusPrazo ==
    \A p \in Analisados : \A i \in Indices(p) :
        LET status == p.df.rows[i]["status_prazo"]
        IN  /\ p.erro = ""
            /\ status \in {Pendente, EmAtraso, NoPrazo}
            /\ (status = Pendente) <=> ~Presente(Real(p, i))
            /\ (status = EmAtraso) <=> (Presente(Real(p, i)) /\ DepoisDoPrazo(p, i))
            /\ (status = NoPrazo) <=> (Presente(Real(p, i)) /\ ~DepoisDoPrazo(p, i))

\* C1's case: a task completed whose due date cannot be parsed, enriched, on time
C1_Witness ==
    /\ pad_gclick.fase = "analisado"
    /\ \E i \in Indices(pad_gclick) :
          /\ pad_gclick.padronizado.rows[i]["data_prevista_conclusao"] = Str(<<"a","b","c">>)
          /\ Presente(Real(pad_gclick, i))
          /\ pad_gclick.df.rows[i]["status_prazo"] = NoPrazo

\* dias is the whole days of max(0, real - prevista)
DiasConforme(p, i, dias) ==
    LET d == Real(p, i).n - Prevista(p, i).n
    IN  /\ dias.tipo = "int" /\ dias.n >= 0
        /\ IF d <= 0 THEN dias.n = 0
           ELSE dias.n * MinutosPorDia <= d /\ d < (dias.n + 1) * MinutosPorDia
        /\ (d = 0) => (dias.n = 0 /\ p.df.rows[i]["status_prazo"] = NoPrazo)
        /\ (d = MinutosPorDia) => (dias.n = 1 /\ p.df.rows[i]["status_prazo"] = EmAtraso)

Nulo(cell) == cell.tipo \in {"NaN", "NaT"}

\* C3: after calcular_metricas every task whose completed date is absent is Pendente
\* and has no mes_conclusao; a mes_conclusao is present only for tasks with a completed
\* date, and then is the year-month of that date.
C3_MesConclusao ==
    \A p \in Analisados : \A i \in Indices(p) :
        LET mes == p.df.rows[i]["mes_conclusao"]
        IN  IF Presente(Real(p, i))
            THEN mes = PeriodoMesStr(Real(p, i))
            ELSE p.df.rows[i]["status_prazo"] = Pendente /\ Nulo(mes)

\* what enrichment may do to a cell the adapter set: leave it as it is
Mantido(p, i, c) == p.df.rows[i][c] = p.padronizado.rows[i][c]

\* the same date: the cell unchanged, still missing, or the text replaced by the
\* Timestamp it denotes
MesmaData(antes, depois) ==
    \/ depois = antes
    \/ Nulo(antes) /\ Nulo(depois)
    \/ antes.tipo = "str" /\ Presente(depois) /\ depois = ParseDateTime(antes.s)

ColunasAdaptador ==
    {"id_tarefa", "nome_tarefa", "cliente", "responsavel", "origem_ferramenta"}
ColunasData == {"data_prevista_conclusao", "data_real_conclusao"}

\* the adapters leave the caller's raw frame as it was
BrutoIntacto == df_gclick' = df_gclick /\ df_onvio' = df_onvio

\* C8 as stated: enrichment only adds fields: after calcular_metricas the seven fields
\* the adapter set hold the values they had before, and the adapter leaves the caller's
\* raw record set unchanged.
C8_Original ==
    [][ /\ BrutoIntacto
        /\ \A p \in {pad_gclick', pad_onvio'} :
              p.fase = "analisado" =>
                 \A i \in Indices(p) :
                    /\ \A c \in ColunasAdaptador : Mantido(p, i, c)
                    /\ \A c \in ColunasData : MesmaData(p.padronizado.rows[i][c], p.df.rows[i][c]) ]_vars

\* C8 (amended): enrichment adds fields and parses the two dates: after
\* calcular_metricas id_tarefa, nome_tarefa, cliente, responsavel and origem_ferramenta
\* hold the values they had before, data_prevista_conclusao and data_real_conclusao hold
\* the parsed date of the value they had (absent when it cannot be parsed), and the
\* adapter leaves the caller's raw record set unchanged.
C8_SoAcrescenta ==
    [][ /\ BrutoIntacto
        /\ \A p \in {pad_gclick', pad_onvio'} :
              p.fase = "analisado" =>
                 \A i \in Indices(p) :
                    /\ \A c \in ColunasAdaptador : Mantido(p, i, c)
                    /\ \A c \in ColunasData : p.df.rows[i][c] = to_datetime(p.padronizado.rows[i][c]) ]_vars

\* C8's case: a task with an unparseable due date, adapted from the G-Click export and enriched
C8_Witness ==
    /\ pad_gclick.fase = "analisado"
    /\ df_gclick.cols = ColunasGClick
    /\ \E i \in Indices(pad_gclick) :
          /\ df_gclick.rows[i]["Due Date"] = Str(<<"a","b","c">>)
          /\ pad_gclick.df.rows[i]["data_prevista_conclusao"] = NaT
          /\ pad_gclick.df.rows[i]["nome_tarefa"] = df_gclick.rows[i]["Task Name"]

SemOrigem(df) == SemColuna(df, "origem_ferramenta")

OrigemDe(df) == {df.rows[i]["origem_ferramenta"] : i \in 1..Len(df.rows)}

\* C10: the G-Click and the Onvio export of the same tasks give, through
\* padronizar_gclick and padronizar_onvio, frames equal in every field but
\* origem_ferramenta, and so they are still after calcular_metricas.
C10_MesmoCanonico ==
    (pad_gclick.fase = pad_onvio.fase /\ pad_gclick.fase # "bruto") =>
        /\ SemOrigem(pad_gclick.df) = SemOrigem(pad_onvio.df)
        /\ pad_gclick.df.cols = pad_onvio.df.cols
        /\ pad_gclick.erro = pad_onvio.erro
        /\ OrigemDe(pad_gclick.df) \subseteq {Str(<<"G","-","C","l","i","c","k">>)}
        /\ OrigemDe(pad_onvio.df) \subseteq {Str(<<"O","n","v","i","o">>)}

\* C10's case: both exports of a late task adapted and enriched
C10_Witness ==
    /\ pad_gclick.fase = "analisado" /\ pad_onvio.fase = "analisado"
    /\ \E i \in Indices(pad_gclick) : pad_gclick.df.rows[i]["status_prazo"] = EmAtraso
    /\ df_gclick.cols # df_onvio.cols

-----------------------------------------------------------------------------
(* Properties of categorizar_tarefa (SpecCategorizar) *)

NomeMinusculo == Lower(PyStr(arg_nome))

\* C5: categorizar_tarefa gives every input exactly one of the four categories, in
\* the priority Fiscal, Contabil, Depto. Pessoal, Outros: a name with a fiscal and a
\* payroll keyword is Fiscal, a name with no keyword is Outros.
C5_Categorias ==
    ret_tipo # NaoChamado =>
        /\ ret_tipo \in Categorias
        /\ (ret_tipo = "Fiscal") <=> AnyKeyword(PalavrasFiscal, NomeMinusculo)
        /\ (ret_tipo = "Contabil") <=>
              (~AnyKeyword(PalavrasFiscal, NomeMinusculo) /\ AnyKeyword(PalavrasContabil, NomeMinusculo))
        /\ (ret_tipo = "Depto. Pessoal") <=>
              /\ ~AnyKeyword(PalavrasFiscal, NomeMinusculo)
              /\ ~AnyKeyword(PalavrasContabil, NomeMinusculo)
              /\ AnyKeyword(PalavrasPessoal, NomeMinusculo)
        /\ (ret_tipo = "Outros") <=>
              /\ ~AnyKeyword(PalavrasFiscal, NomeMinusculo)
              /\ ~AnyKeyword(PalavrasContabil, NomeMinusculo)
              /\ ~AnyKeyword(PalavrasPessoal, NomeMinusculo)

\* C5's case: a capitalised name with a payroll and a fiscal keyword, classified Fiscal
C5_Witness ==
    /\ ret_tipo = "Fiscal"
    /\ arg_nome.tipo = "str" /\ arg_nome.s # Lower(arg_nome.s)
    /\ Contains(<<"f","o","l","h","a">>, NomeMinusculo)
    /\ AnyKeyword(PalavrasFiscal, NomeMinusculo)

-----------------------------------------------------------------------------
(* Properties of the script (Spec) *)

\* the six source columns of the selected tool
ColunasExigidas ==
    IF ferramenta_selecionada = "G-Click" THEN Range(ColunasGClick)
    ELSE IF ferramenta_selecionada = "Onvio Processos" THEN Range(ColunasOnvio)
    ELSE {}

CamposCanonicos ==
    {"id_tarefa", "nome_tarefa", "cliente", "responsavel",
     "data_prevista_conclusao", "data_real_conclusao", "origem_ferramenta"}

\* a file with tasks, read for a supported tool, that lacks one of the tool's columns
FaltaColuna ==
    /\ arquivo_carregado.presente /\ arquivo_carregado.legivel
    /\ arquivo_carregado.df.rows # <<>>
    /\ ColunasExigidas # {}
    /\ \E c \in ColunasExigidas : ~HasCol(arquivo_carregado.df, c)

\* the records on the dashboard that lack a canonical field
RegistrosIncompletos ==
    {i \in 1..Len(execucao.painel.tabela.rows) :
        \E c \in CamposCanonicos : ~HasCol(execucao.painel.tabela, c)}

\* C4: when the file lacks one of the six columns of the selected tool, the run fails
\* with an error shown to the user and yields no canonical task: the script never
\* goes on to filter, summarise or display records that lack a canonical field.
C4_ColunaAusente ==
    FaltaColuna =>
        /\ execucao.erro_processar # ""
        /\ ~execucao.df_filtrado_definido
        /\ ~execucao.painel.exibido
        /\ RegistrosIncompletos = {}

\* the tasks of df_filtrado that are Em Atraso
Atrasadas == SelectSeq(execucao.df_filtrado.rows, LAMBDA r : r["status_prazo"] = EmAtraso)

\* C6: the mean delay of the summary is the average of dias_de_atraso over exactly
\* the Em Atraso tasks of the filtered set; with no such task it is undefined ("N/A").
C6_MediaAtraso ==
    execucao.painel.exibido =>
        LET media == execucao.painel.media
        IN  IF Atrasadas = <<>> THEN media.nan /\ execucao.painel.texto_media = "N/A"
            ELSE /\ ~media.nan
                 /\ \A i \in 1..Len(Atrasadas) : Atrasadas[i]["dias_de_atraso"].tipo = "int"
                 /\ media.soma * Len(Atrasadas) = SomaDias(Atrasadas) * media.n

\* C7: whatever the user did before pressing the diagnosis button, the diagnosis
\* step reads a df_filtrado that exists, and its failure is shown as an error
\* message and never ends the run with an exception.
C7_Diagnostico ==
    botao => /\ execucao.df_filtrado_definido
             /\ execucao.excecao = ""
             /\ execucao.ia \in {"sucesso", "erro exibido"}

\* C9: summarising an empty filtered set raises nothing and gives total 0, rate 0,
\* an undefined mean and empty per-assignee, per-category and per-month results.
C9_ConjuntoVazio ==
    (execucao.df_filtrado_definido /\ execucao.df_filtrado.rows = <<>>) =>
        /\ execucao.erro_processar = ""
        /\ execucao.painel.exibido
        /\ execucao.painel.total = 0
        /\ execucao.painel.taxa.num = 0 /\ execucao.painel.taxa.den # 0
        /\ execucao.painel.media.nan /\ execucao.painel.texto_media = "N/A"
        /\ execucao.painel.por_responsavel = {}
        /\ execucao.painel.taxa_responsavel = {}
        /\ execucao.painel.atraso_tipo = {}
        /\ execucao.painel.evolucao = {}

\* C9's case: a file with tasks, every client deselected, the dashboard drawn
C9_Witness ==
    /\ arquivo_carregado.presente /\ Len(arquivo_carregado.df.rows) > 0
    /\ filtro.definido /\ filtro.clientes = {}
    /\ execucao.df_filtrado_definido /\ execucao.df_filtrado.rows = <<>>
    /\ execucao.painel.exibido /\ execucao.painel.total = 0

=============================================================================
